---- MODULE Spec2Model ----
(***************************************************************************)
(* Model of the energy load balancer: the baseline estimator               *)
(* (baseline_calculator.calculate_baseline, optena1.calculate_baseline)    *)
(* and the two optimisation entry points                                   *)
(* (energy_simulation.run_simulation, simulator.run_simulation).           *)
(*                                                                         *)
(* Numbers.  The code computes in IEEE doubles; the model computes in      *)
(* exact fixed point:                                                      *)
(*   workload cell            w   whole kWh                                *)
(*   renewable availability   a   whole percent                            *)
(*   renewable threshold      T   hundredths (the slider value, T/100)     *)
(*   energy                   e   centi-kWh (kWh * Percent), so that       *)
(*                                w * (T/100 - a/100) is the integer       *)
(*                                w * (T - a)                              *)
(*   price                    p   cents per kWh                            *)
(*   emission factor          f   units of 0.02 kg CO2 per kWh             *)
(*   cost                         e * p                                    *)
(*   emissions                    e * Percent * f                          *)
(* Two places where the machine representation changes a discrete outcome  *)
(* are modelled as the machine does them: the cast of a float stored into  *)
(* an int64 ndarray (SetItem) and the rounding of renewable_threshold*100  *)
(* (ThresholdTimes100).                                                    *)
(***************************************************************************)
EXTENDS Integers, Sequences, FiniteSets, TLC

VARIABLES
    data,    \* the caller's DataFrame (the object every entry point is handed)
    before,  \* the caller's DataFrame as it was when the call was made
    call,    \* the entry point called and its arguments
    result,  \* what the call returned or raised
    pc,      \* "ready": table loaded, nothing called; "returned": call over
    runs     \* the calls in progress on a shared table, each with its
             \* arguments, its position in simulator.run_simulation and
             \* its result dictionary

vars == <<data, before, call, result, pc, runs>>

----------------------------------------------------------------------------
(* Bounds and input sets *)

MaxSlots == 3

Percent == 100

\* renewable_threshold values, in hundredths: the default 0.70, the slider's
\* ends 0 and 1, the slider position 0.55, and two values outside [0,1].
Thresholds == {-10, 0, 55, 70, 100, 120}

\* energy_price_per_kwh arguments, in cents (slider minimum and default).
PriceParams == {5, 10}

\* <<emission_factor_non_renewable, emission_factor_renewable>> in units of
\* 0.02 kg/kWh: the defaults (0.5, 0.02) and (0, 0).
EmissionFactors == {<<25, 1>>, <<0, 0>>}

\* Rows of a table whose workload column holds numbers.
NumericRows ==
    { [w |-> 10, cell |-> "num", a |-> 80,  p |-> 10],
      [w |-> 10, cell |-> "num", a |-> 50,  p |-> 10],
      [w |-> 10, cell |-> "num", a |-> 30,  p |-> 20],
      [w |-> 5,  cell |-> "num", a |-> 55,  p |-> 20],
      [w |-> 0,  cell |-> "num", a |-> 100, p |-> 10],
      [w |-> 3,  cell |-> "num", a |-> 100, p |-> 20],
      [w |-> -5, cell |-> "num", a |-> 0,   p |-> 10],
      [w |-> 5,  cell |-> "num", a |-> 0,   p |-> 10] }

\* Rows of a table whose workload column was read as text (dtype object):
\* "str" is a numeral ("10"), "bad" a cell no number can be read from.
TextRows ==
    { [w |-> 10, cell |-> "str", a |-> 80, p |-> 10],
      [w |-> 5,  cell |-> "str", a |-> 30, p |-> 20],
      [w |-> 0,  cell |-> "bad", a |-> 50, p |-> 10] }

SeqsUpTo(S, n) == UNION { [1..k -> S] : k \in 1..n }

NoDerived == [BaselineEmissions |-> <<>>, OptimizedEnergy |-> <<>>,
              OptimizedEmissions |-> <<>>]

\* The 'Timestamp' columns of a table of n rows: hours numbered from 1, in
\* ascending order (a file written in time order) or in descending order
\* (newest first).  Nothing that reads a file sorts its rows.
Timestamps(n) == { [i \in 1..n |-> i], [i \in 1..n |-> n + 1 - i] }

Frame(hasWorkload, dtype, ts, rows) ==
    [hasWorkload |-> hasWorkload, dtype |-> dtype, ts |-> ts, rows |-> rows,
     derived |-> NoDerived]

HasBad(rows) == \E i \in 1..Len(rows) : rows[i].cell = "bad"

\* The tables a caller can hand over: a numeric workload column of dtype
\* int64 or float64, a text column with at least one unreadable cell, or a
\* table without the workload column.
Tables ==
    UNION { { Frame(TRUE, dt, ts, rows) : ts \in Timestamps(Len(rows)) } :
              dt \in {"int64", "float64"},
              rows \in SeqsUpTo(NumericRows, MaxSlots) }
    \cup UNION { { Frame(TRUE, "object", ts, rows) :
                     ts \in Timestamps(Len(rows)) } :
                   rows \in { r \in SeqsUpTo(TextRows, MaxSlots) : HasBad(r) } }
    \cup UNION { { Frame(FALSE, "none", ts, rows) :
                     ts \in Timestamps(Len(rows)) } :
                   rows \in SeqsUpTo({ r \in NumericRows : r.w = 0 }, MaxSlots) }

----------------------------------------------------------------------------
(* Helpers *)

Min(x, y) == IF x <= y THEN x ELSE y
Max(x, y) == IF x >= y THEN x ELSE y

RECURSIVE SumSeq(_)
SumSeq(s) == IF s = <<>> THEN 0 ELSE Head(s) + SumSeq(Tail(s))

NoCall == [op |-> "none", T |-> 0, price |-> 0, fnr |-> 0, fr |-> 0]
NoResult == [status |-> "none"]

Init ==
    /\ data \in Tables
    /\ before = data
    /\ call = NoCall
    /\ result = NoResult
    /\ pc = "ready"
    /\ runs = <<>>

----------------------------------------------------------------------------
(* Baseline estimator *)

\* pd.to_numeric(column, errors='coerce') on one cell: a number stays, a
\* numeral is parsed, anything else becomes NaN.
CoerceCell(row) ==
    CASE row.cell = "num" -> row
      [] row.cell = "str" -> [row EXCEPT !.cell = "num"]
      [] row.cell = "bad" -> [row EXCEPT !.cell = "nan", !.w = 0]
      [] row.cell = "nan" -> row

\* pd.to_numeric on the whole column: a numeric column is returned as it
\* is; a text column becomes int64 when every cell parses and float64 (NaN
\* needs a float) otherwise.
to_numeric(frame) ==
    IF frame.dtype \in {"int64", "float64"}
    THEN frame
    ELSE [frame EXCEPT
            !.rows = [i \in 1..Len(frame.rows) |-> CoerceCell(frame.rows[i])],
            !.dtype = IF HasBad(frame.rows) THEN "float64" ELSE "int64"]

\* Mutant of ColumnSum: only the non-renewable share of each cell is summed.
ColumnSum_NonRenewableShare(rows) ==
    SumSeq([i \in 1..Len(rows) |->
              IF rows[i].cell = "num"
              THEN rows[i].w * (Percent - rows[i].a) ELSE 0])

\* Series.sum() of a numeric column, in centi-kWh: NaN cells are skipped.
ColumnSum(rows) ==
    SumSeq([i \in 1..Len(rows) |->
              IF rows[i].cell = "num" THEN rows[i].w * Percent ELSE 0])

BaselineMetrics(total_energy, energy_price_per_kwh, emission_factor_non_renewable) ==
    [status |-> "ok",
     total_energy |-> total_energy,
     total_cost |-> total_energy * energy_price_per_kwh,
     total_emissions |-> total_energy * Percent * emission_factor_non_renewable]

\* baseline_calculator.calculate_baseline: the column is subscripted (and
\* assigned back, coerced) before the column-existence check is reached.
calculate_baseline(frame, energy_price_per_kwh, emission_factor_non_renewable) ==
    IF ~frame.hasWorkload
    THEN [data |-> frame, result |-> [status |-> "KeyError"]]
    ELSE LET coerced == to_numeric(frame)
         IN IF ~coerced.hasWorkload
            THEN [data |-> coerced, result |-> [status |-> "ValueError"]]
            ELSE [data |-> coerced,
                  result |-> BaselineMetrics(ColumnSum(coerced.rows),
                                             energy_price_per_kwh,
                                             emission_factor_non_renewable)]

\* optena1.calculate_baseline: no coercion and no check.  The sum of a text
\* column is the concatenation of its cells, and a str times a float raises
\* TypeError.
optena1_calculate_baseline(frame, energy_price_per_kwh, emission_factor_non_renewable) ==
    IF ~frame.hasWorkload
    THEN [data |-> frame, result |-> [status |-> "KeyError"]]
    ELSE IF frame.dtype = "object"
    THEN [data |-> frame, result |-> [status |-> "TypeError"]]
    ELSE [data |-> frame,
          result |-> BaselineMetrics(ColumnSum(frame.rows),
                                     energy_price_per_kwh,
                                     emission_factor_non_renewable)]

Call_calculate_baseline ==
    /\ pc = "ready"
    /\ \E price \in PriceParams, f \in EmissionFactors :
         LET out == calculate_baseline(data, price, f[1])
         IN /\ call' = [op |-> "baseline_calculator.calculate_baseline",
                        T |-> 0, price |-> price, fnr |-> f[1], fr |-> 0]
            /\ data' = out.data
            /\ result' = out.result
    /\ before' = data
    /\ pc' = "returned"
    /\ UNCHANGED runs

Call_optena1_calculate_baseline ==
    /\ pc = "ready"
    /\ \E price \in PriceParams, f \in EmissionFactors :
         LET out == optena1_calculate_baseline(data, price, f[1])
         IN /\ call' = [op |-> "optena1.calculate_baseline",
                        T |-> 0, price |-> price, fnr |-> f[1], fr |-> 0]
            /\ data' = out.data
            /\ result' = out.result
    /\ before' = data
    /\ pc' = "returned"
    /\ UNCHANGED runs

----------------------------------------------------------------------------
(* Optimisation engine: energy_simulation.run_simulation *)

\* Mutant of Optimal: the boundary is excluded.
Optimal_Strict(a, T) == a > T

\* renewable_availability >= renewable_threshold, with renewable_availability
\* the column divided by 100.  a/100 and the threshold T/100 are the same
\* double when a = T and differ by at least 0.01 otherwise, so the comparison
\* of the doubles is the comparison of the integers.
Optimal(a, T) == a >= T

optimal_hours(rows, T) == [i \in 1..Len(rows) |-> Optimal(rows[i].a, T)]

\* workload_energy, in centi-kWh.
workload_energy(rows) == [i \in 1..Len(rows) |-> rows[i].w * Percent]

\* Mutant of energy_to_shift: every slot contributes, optimal or not.
energy_to_shift_AllSlots(rows, T) ==
    SumSeq([i \in 1..Len(rows) |-> rows[i].w * (T - rows[i].a)])

\* np.sum(workload_energy[~optimal_hours] *
\*        (renewable_threshold - renewable_availability[~optimal_hours]))
energy_to_shift(rows, T) ==
    SumSeq([i \in 1..Len(rows) |->
              IF Optimal(rows[i].a, T) THEN 0 ELSE rows[i].w * (T - rows[i].a)])

\* The cast of a value stored into one element of optimized_workload_energy,
\* which has the dtype of the workload column: an int64 array keeps the
\* integer part (truncation toward zero to whole kWh), a float64 array keeps
\* the value.
SetItem(dtype, x) ==
    IF dtype = "int64"
    THEN IF x >= 0 THEN (x \div Percent) * Percent
                   ELSE -(((-x) \div Percent) * Percent)
    ELSE x

\* Mutant of IncreaseLoop: nothing is shifted into the optimal slots.
IncreaseLoop_NoShift(i, opt, ets, rows, T, dtype) == [opt |-> opt, ets |-> ets]

\* "Increase workload during optimal hours": the loop from index i on, with
\* optimized_workload_energy = opt and energy_to_shift = ets.  A fifth of
\* w kWh is w * 20 centi-kWh.
RECURSIVE IncreaseLoop(_, _, _, _, _, _)
IncreaseLoop(i, opt, ets, rows, T, dtype) ==
    IF i > Len(rows)
    THEN [opt |-> opt, ets |-> ets]
    ELSE IF Optimal(rows[i].a, T)
    THEN LET max_additional_energy == rows[i].w * 20
             shift_amount == Min(ets, max_additional_energy)
             opt2 == [opt EXCEPT ![i] = SetItem(dtype, opt[i] + shift_amount)]
             ets2 == ets - shift_amount
         IN IF ets2 <= 0
            THEN [opt |-> opt2, ets |-> ets2]
            ELSE IncreaseLoop(i + 1, opt2, ets2, rows, T, dtype)
    ELSE IncreaseLoop(i + 1, opt, ets, rows, T, dtype)

\* Mutant of DecreaseLoop: every slot is reduced, optimal or not.
DecreaseLoop_AllSlots(opt, rows, T, dtype) ==
    [i \in 1..Len(rows) |-> SetItem(dtype, opt[i] - rows[i].w * 10)]

\* "Decrease workload during non-optimal hours": a tenth of w kWh is
\* w * 10 centi-kWh.
DecreaseLoop(opt, rows, T, dtype) ==
    [i \in 1..Len(rows) |->
       IF Optimal(rows[i].a, T)
       THEN opt[i]
       ELSE SetItem(dtype, opt[i] - rows[i].w * 10)]

\* Mutant of Clamp: negative values are kept.
Clamp_None(opt) == opt

\* np.maximum(optimized_workload_energy, 0)
Clamp(opt) == [i \in 1..Len(opt) |-> Max(opt[i], 0)]

optimized_workload_energy(rows, T, dtype) ==
    Clamp(DecreaseLoop(
            IncreaseLoop(1, workload_energy(rows), energy_to_shift(rows, T),
                         rows, T, dtype).opt,
            rows, T, dtype))

\* energy * price of the slot
Cost(e, p) == e * p

\* Mutant of Savings: the operands are swapped.
Savings_Swapped(baseline, optimized) == optimized - baseline

\* energy_savings, cost_savings, emissions_reduction: baseline total minus
\* optimized total.
Savings(baseline, optimized) == baseline - optimized

\* Mutant of Emissions: the two emission factors are exchanged.
Emissions_FactorsSwapped(e, a, fnr, fr) ==
    (e * Percent - e * a) * fr + (e * a) * fnr

\* renewable = e * a/100, non_renewable = e - renewable,
\* emissions = non_renewable * fnr + renewable * fr   (scaled by Percent)
Emissions(e, a, fnr, fr) == (e * Percent - e * a) * fnr + (e * a) * fr

\* Mutant of carbon_footprint_impact: the zero-baseline guard is missing.
carbon_footprint_impact_Unguarded(emissions_reduction, total_baseline_emissions) ==
    [num |-> emissions_reduction * 100, den |-> total_baseline_emissions]

\* (emissions_reduction / total_baseline_emissions) * 100 if the baseline is
\* not 0, else 0: kept as the fraction num/den.
carbon_footprint_impact(emissions_reduction, total_baseline_emissions) ==
    IF total_baseline_emissions # 0
    THEN [num |-> emissions_reduction * 100, den |-> total_baseline_emissions]
    ELSE [num |-> 0, den |-> 1]

\* Storage.  Every array the function holds lives in a buffer; a buffer is
\* named by a number.  CallerBuffer is the storage of the caller's workload
\* column, which data[...].values hands out without copying.
CallerBuffer == 1

\* Mutant of ndarray_copy: no copy is made, the name is bound to the source.
ndarray_copy_Alias(source, fresh) == source

\* workload_energy.copy(): the values of source in the buffer fresh.
ndarray_copy(source, fresh) == fresh

\* pd.DataFrame({...}): a column built from an array is stored apart from it.
DataFrame_column(source, fresh) == fresh

\* The caller's table with its workload column read back from storage
\* (centi-kWh to the whole kWh of a cell).
WithWorkloadColumn(frame, column) ==
    [frame EXCEPT !.rows = [i \in 1..Len(frame.rows) |->
                              [frame.rows[i] EXCEPT !.w = column[i] \div Percent]]]

\* energy_simulation.run_simulation.  A table without the workload column
\* raises KeyError at the subscript; a text column raises TypeError at the
\* first product.  The element writes of the two loops go to the buffer
\* optimized_workload_energy names; np.maximum returns a new array; the
\* baseline total and the result table read the buffer
\* baseline_energy_consumption names after the loops have run.
run_simulation(frame, T, fnr, fr) ==
    IF ~frame.hasWorkload
    THEN [data |-> frame, result |-> [status |-> "KeyError"]]
    ELSE IF frame.dtype = "object"
    THEN [data |-> frame, result |-> [status |-> "TypeError"]]
    ELSE
    LET rows == frame.rows
        n == Len(rows)
        baseline_buffer == ndarray_copy(CallerBuffer, 2)
        optimized_buffer == ndarray_copy(CallerBuffer, 3)
        clamped_buffer == 4
        written == DecreaseLoop(
                       IncreaseLoop(1, workload_energy(rows),
                                    energy_to_shift(rows, T),
                                    rows, T, frame.dtype).opt,
                       rows, T, frame.dtype)
        heap == [b \in 1..3 |->
                   IF b = optimized_buffer THEN written
                   ELSE workload_energy(rows)]
        base == heap[baseline_buffer]
        opt == Clamp(heap[optimized_buffer])
        total_baseline_energy == SumSeq(base)
        total_optimized_energy == SumSeq(opt)
        total_baseline_cost ==
            SumSeq([i \in 1..n |-> Cost(base[i], rows[i].p)])
        total_optimized_cost ==
            SumSeq([i \in 1..n |-> Cost(opt[i], rows[i].p)])
        total_baseline_emissions ==
            SumSeq([i \in 1..n |->
                      Emissions(base[i], rows[i].a, fnr, fr)])
        total_optimized_emissions ==
            SumSeq([i \in 1..n |-> Emissions(opt[i], rows[i].a, fnr, fr)])
        emissions_reduction ==
            Savings(total_baseline_emissions, total_optimized_emissions)
    IN [data |-> WithWorkloadColumn(frame, heap[CallerBuffer]),
        result |->
          [status |-> "ok",
           total_baseline_energy |-> total_baseline_energy,
           total_optimized_energy |-> total_optimized_energy,
           energy_savings |->
               Savings(total_baseline_energy, total_optimized_energy),
           total_baseline_cost |-> total_baseline_cost,
           total_optimized_cost |-> total_optimized_cost,
           cost_savings |-> Savings(total_baseline_cost, total_optimized_cost),
           total_baseline_emissions |-> total_baseline_emissions,
           total_optimized_emissions |-> total_optimized_emissions,
           emissions_reduction |-> emissions_reduction,
           carbon_footprint_impact |->
               carbon_footprint_impact(emissions_reduction,
                                       total_baseline_emissions),
           storage |->
               [BaselineEnergy |-> DataFrame_column(baseline_buffer, 5),
                OptimizedEnergy |-> DataFrame_column(clamped_buffer, 6)],
           df |-> [i \in 1..n |->
                     [Timestamp |-> frame.ts[i],
                      BaselineEnergy |-> base[i],
                      OptimizedEnergy |-> opt[i],
                      RenewableAvailability |-> rows[i].a,
                      EnergyPrice |-> rows[i].p]]]]

Call_run_simulation ==
    /\ pc = "ready"
    /\ \E T \in Thresholds, f \in EmissionFactors :
         LET out == run_simulation(data, T, f[1], f[2])
         IN /\ call' = [op |-> "energy_simulation.run_simulation",
                        T |-> T, price |-> 0, fnr |-> f[1], fr |-> f[2]]
            /\ data' = out.data
            /\ result' = out.result
    /\ before' = data
    /\ pc' = "returned"
    /\ UNCHANGED runs

----------------------------------------------------------------------------
(* Optimisation engine: simulator.run_simulation *)

\* The sign of the rounding error of the double product
\* renewable_threshold * 100 for renewable_threshold = T/100, T in -20..130:
\* (T/100)*100 is above T for the first set, below T for the second and
\* equal to T for every other T.
RoundsUp == {7, 14, 28, 55, 56, 109, 110, 111, 112}
RoundsDown == {-14, -7, 29, 57, 58, 113, 114, 115, 116}

ThresholdTimes100(T) ==
    [whole |-> T,
     err |-> IF T \in RoundsUp THEN 1 ELSE IF T \in RoundsDown THEN -1 ELSE 0]

\* data['Renewable Availability (%)'] >= renewable_threshold * 100, for a
\* whole-percent availability a: the rounding error is far below one percent,
\* so it decides the comparison only when a is the threshold's own percent.
simulator_Optimal(a, T) ==
    LET t == ThresholdTimes100(T)
    IN a > t.whole \/ (a = t.whole /\ t.err <= 0)

\* np.where(optimal, workload, workload * 0.9), in centi-kWh: the result is
\* a new float64 array whatever the dtype of the workload column.
simulator_OptimizedEnergy(rows, T) ==
    [i \in 1..Len(rows) |->
       IF simulator_Optimal(rows[i].a, T)
       THEN rows[i].w * Percent
       ELSE rows[i].w * 90]

\* simulator.run_simulation.  The three derived columns are written into the
\* caller's table.  A table without the workload column raises KeyError and a
\* text column TypeError while the first column is being computed, before it
\* is assigned.
simulator_run_simulation(frame, T, energy_price_per_kwh, fnr, fr) ==
    IF ~frame.hasWorkload
    THEN [data |-> frame, result |-> [status |-> "KeyError"]]
    ELSE IF frame.dtype = "object"
    THEN [data |-> frame, result |-> [status |-> "TypeError"]]
    ELSE
    LET rows == frame.rows
        n == Len(rows)
        base == workload_energy(rows)
        BaselineEmissions ==
            [i \in 1..n |-> Emissions(base[i], rows[i].a, fnr, fr)]
        OptimizedEnergy == simulator_OptimizedEnergy(rows, T)
        OptimizedEmissions ==
            [i \in 1..n |-> Emissions(OptimizedEnergy[i], rows[i].a, fnr, fr)]
        baseline_cost ==
            SumSeq([i \in 1..n |-> base[i] * energy_price_per_kwh])
        optimized_cost ==
            SumSeq([i \in 1..n |-> OptimizedEnergy[i] * energy_price_per_kwh])
    IN [data |-> [frame EXCEPT !.derived =
                    [BaselineEmissions |-> BaselineEmissions,
                     OptimizedEnergy |-> OptimizedEnergy,
                     OptimizedEmissions |-> OptimizedEmissions]],
        result |->
          [status |-> "ok",
           baseline_energy |-> SumSeq(base),
           optimized_energy |-> SumSeq(OptimizedEnergy),
           energy_savings |-> SumSeq(base) - SumSeq(OptimizedEnergy),
           baseline_cost |-> baseline_cost,
           optimized_cost |-> optimized_cost,
           cost_savings |-> baseline_cost - optimized_cost,
           baseline_emissions |-> SumSeq(BaselineEmissions),
           optimized_emissions |-> SumSeq(OptimizedEmissions),
           emissions_savings |->
               SumSeq(BaselineEmissions) - SumSeq(OptimizedEmissions)]]

Call_simulator_run_simulation ==
    /\ pc = "ready"
    /\ \E T \in Thresholds, price \in PriceParams, f \in EmissionFactors :
         LET out == simulator_run_simulation(data, T, price, f[1], f[2])
         IN /\ call' = [op |-> "simulator.run_simulation",
                        T |-> T, price |-> price, fnr |-> f[1], fr |-> f[2]]
            /\ data' = out.data
            /\ result' = out.result
    /\ before' = data
    /\ pc' = "returned"
    /\ UNCHANGED runs

Next ==
    \/ Call_calculate_baseline
    \/ Call_optena1_calculate_baseline
    \/ Call_run_simulation
    \/ Call_simulator_run_simulation

Spec == Init /\ [][Next]_vars

----------------------------------------------------------------------------
(* Two calls of simulator.run_simulation on one table object *)

\* The calls that share the table.
Runs == {1, 2}

\* The arguments of a call.
RunParams ==
    { [T |-> T, price |-> price, fnr |-> f[1], fr |-> f[2]] :
        T \in Thresholds, price \in PriceParams, f \in EmissionFactors }

\* The tables the concurrent calls are handed: one or two rows, numeric
\* (np.where makes 'Optimized Energy' a float column whatever the dtype of
\* the workload column, so one dtype is kept), rows in time order.
SharedTables ==
    { t \in Tables :
        /\ t.hasWorkload
        /\ t.dtype = "float64"
        /\ Len(t.rows) < MaxSlots
        /\ \A i \in 1..Len(t.rows) : t.ts[i] = i }

\* Both calls have been made with the same table object and neither has
\* executed a statement.
ConcurrentInit ==
    /\ data \in SharedTables
    /\ before = data
    /\ call = NoCall
    /\ result = NoResult
    /\ pc = "concurrent"
    /\ runs \in [Runs -> { [pc |-> "called", args |-> a, result |-> NoResult] :
                             a \in RunParams }]

\* The statement of call r at position from, leaving it at position to.
Advance(r, from, to) ==
    /\ pc = "concurrent"
    /\ runs[r].pc = from
    /\ runs' = [runs EXCEPT ![r].pc = to]
    /\ UNCHANGED <<before, call, result, pc>>

\* data['Baseline Emissions'] = ...
Write_BaselineEmissions(r) ==
    /\ Advance(r, "called", "baseline_emissions_written")
    /\ data' = [data EXCEPT !.derived.BaselineEmissions =
                  [i \in 1..Len(data.rows) |->
                     Emissions(workload_energy(data.rows)[i], data.rows[i].a,
                               runs[r].args.fnr, runs[r].args.fr)]]

\* data['Optimized Energy'] = np.where(...)
Write_OptimizedEnergy(r) ==
    /\ Advance(r, "baseline_emissions_written", "optimized_energy_written")
    /\ data' = [data EXCEPT !.derived.OptimizedEnergy =
                  simulator_OptimizedEnergy(data.rows, runs[r].args.T)]

\* data['Optimized Emissions'] = ..., computed from data['Optimized Energy']
\* as the table holds it now.
Write_OptimizedEmissions(r) ==
    /\ Advance(r, "optimized_energy_written", "optimized_emissions_written")
    /\ data' = [data EXCEPT !.derived.OptimizedEmissions =
                  [i \in 1..Len(data.rows) |->
                     Emissions(data.derived.OptimizedEnergy[i], data.rows[i].a,
                               runs[r].args.fnr, runs[r].args.fr)]]

\* results = {...}; return results: the sums of the columns as the table
\* holds them now.
Sum_Columns(r) ==
    /\ pc = "concurrent"
    /\ runs[r].pc = "optimized_emissions_written"
    /\ LET base == workload_energy(data.rows)
           n == Len(data.rows)
           price == runs[r].args.price
           baseline_cost == SumSeq([i \in 1..n |-> base[i] * price])
           optimized_cost ==
               SumSeq([i \in 1..n |-> data.derived.OptimizedEnergy[i] * price])
       IN runs' = [runs EXCEPT
             ![r].pc = "returned",
             ![r].result =
               [status |-> "ok",
                baseline_energy |-> SumSeq(base),
                optimized_energy |-> SumSeq(data.derived.OptimizedEnergy),
                energy_savings |->
                    SumSeq(base) - SumSeq(data.derived.OptimizedEnergy),
                baseline_cost |-> baseline_cost,
                optimized_cost |-> optimized_cost,
                cost_savings |-> baseline_cost - optimized_cost,
                baseline_emissions |-> SumSeq(data.derived.BaselineEmissions),
                optimized_emissions |-> SumSeq(data.derived.OptimizedEmissions),
                emissions_savings |->
                    SumSeq(data.derived.BaselineEmissions)
                    - SumSeq(data.derived.OptimizedEmissions)]]
    /\ UNCHANGED <<data, before, call, result, pc>>

ConcurrentNext ==
    \E r \in Runs :
        \/ Write_BaselineEmissions(r)
        \/ Write_OptimizedEnergy(r)
        \/ Write_OptimizedEmissions(r)
        \/ Sum_Columns(r)

ConcurrentSpec == ConcurrentInit /\ [][ConcurrentNext]_vars

----------------------------------------------------------------------------
(* Properties *)

EnergySimulation == "energy_simulation.run_simulation"
Simulator == "simulator.run_simulation"
BaselineCalculator == "baseline_calculator.calculate_baseline"
Optena1Baseline == "optena1.calculate_baseline"

Returned(op) == pc = "returned" /\ call.op = op

Numeric(frame) == frame.hasWorkload /\ frame.dtype \in {"int64", "float64"}

\* A valid table: numeric non-negative workloads, availability in [0,100].
ValidTable(frame) ==
    /\ Numeric(frame)
    /\ \A i \in 1..Len(frame.rows) :
         frame.rows[i].w >= 0 /\ frame.rows[i].a \in 0..100

Workloads(frame) == [i \in 1..Len(frame.rows) |-> frame.rows[i].w]
Availabilities(frame) == [i \in 1..Len(frame.rows) |-> frame.rows[i].a]
OptimizedColumn(df) == [i \in 1..Len(df) |-> df[i].OptimizedEnergy]
BaselineColumn(df) == [i \in 1..Len(df) |-> df[i].BaselineEnergy]

\* optimized_workload_energy and energy_to_shift when the increase loop of
\* the returned call ended.
AfterIncrease ==
    IncreaseLoop(1, workload_energy(before.rows),
                 energy_to_shift(before.rows, call.T),
                 before.rows, call.T, before.dtype)

C1_Scenario ==
    /\ Returned(EnergySimulation)
    /\ Numeric(before)
    /\ call.T = 70
    /\ Workloads(before) = <<10, 10, 10>>
    /\ Availabilities(before) = <<80, 50, 30>>

\* C1: for workload [10, 10, 10] kWh, availability [80, 50, 30] % and
\* threshold 0.7, energy_simulation.run_simulation classifies only slot 1 as
\* optimal, computes a deficit of 6 kWh, gives slot 1 its cap of +2 (12 kWh),
\* drops the remaining deficit of 4, reduces slots 2 and 3 to 9 kWh, and
\* returns optimized energy [12, 9, 9], total 30 and energy_savings 0.
C1_ConcreteScenario ==
    C1_Scenario =>
        /\ result.status = "ok"
        /\ optimal_hours(before.rows, call.T) = <<TRUE, FALSE, FALSE>>
        /\ energy_to_shift(before.rows, call.T) = 600
        /\ AfterIncrease = [opt |-> <<1200, 1000, 1000>>, ets |-> 400]
        /\ OptimizedColumn(result.df) = <<1200, 900, 900>>
        /\ result.total_optimized_energy = 3000
        /\ result.energy_savings = 0

C1_Witness == C1_Scenario /\ result.status = "ok"

\* The table with every availability replaced by a.
WithAvailability(frame, a) ==
    [frame EXCEPT !.rows = [i \in 1..Len(frame.rows) |->
                              [frame.rows[i] EXCEPT !.a = a]]]

BaselineOf(op, frame, price, fnr) ==
    IF op = BaselineCalculator
    THEN calculate_baseline(frame, price, fnr).result
    ELSE optena1_calculate_baseline(frame, price, fnr).result

C2_Case ==
    /\ Returned(BaselineCalculator) \/ Returned(Optena1Baseline)
    /\ ValidTable(before)

\* C2: for every table of numeric non-negative workloads, calculate_baseline
\* returns total_energy = the sum of the workload column, total_cost =
\* total_energy * price and total_emissions = total_energy * the
\* non-renewable factor; renewable availability has no influence on them.
C2_BaselineTotals ==
    C2_Case =>
        /\ result.status = "ok"
        /\ result.total_energy = SumSeq(Workloads(before)) * Percent
        /\ result.total_cost = result.total_energy * call.price
        /\ result.total_emissions = result.total_energy * Percent * call.fnr
        /\ \A a \in {0, 100} :
             BaselineOf(call.op, WithAvailability(before, a),
                        call.price, call.fnr) = result

C2_Witness ==
    /\ C2_Case
    /\ Len(before.rows) >= 2
    /\ result.status = "ok"
    /\ result.total_energy > 0
    /\ \E i \in 1..Len(before.rows) : before.rows[i].a \in 1..99

C3_Case ==
    /\ Returned(EnergySimulation)
    /\ ValidTable(before)
    /\ call.T = 0

\* C3: with threshold 0 and a valid table every slot is optimal, the deficit
\* is zero, nothing is shifted and no slot is reduced: every per-slot
\* optimized energy equals the slot's baseline energy and the totals agree.
C3_NoOptimization ==
    C3_Case =>
        /\ result.status = "ok"
        /\ \A i \in 1..Len(before.rows) :
             /\ optimal_hours(before.rows, call.T)[i]
             /\ result.df[i].OptimizedEnergy = before.rows[i].w * Percent
             /\ result.df[i].OptimizedEnergy = result.df[i].BaselineEnergy
        /\ energy_to_shift(before.rows, call.T) = 0
        /\ AfterIncrease.opt = workload_energy(before.rows)
        /\ result.total_optimized_energy = result.total_baseline_energy
        /\ result.energy_savings = 0

C3_Witness ==
    /\ C3_Case
    /\ result.status = "ok"
    /\ \E i \in 1..Len(before.rows) :
         before.rows[i].a = 0 /\ before.rows[i].w > 0

C4_Case ==
    /\ Returned(EnergySimulation)
    /\ ValidTable(before)
    /\ \A i \in 1..Len(before.rows) : before.rows[i].a < call.T

\* C4: when no slot is optimal, energy_simulation.run_simulation raises no
\* error, redistributes nothing, and returns for every slot its workload
\* minus 10% of it, so the optimized total is 90% of the baseline total.
C4_NoOptimalSlot ==
    C4_Case =>
        /\ result.status = "ok"
        /\ AfterIncrease.opt = workload_energy(before.rows)
        /\ \A i \in 1..Len(before.rows) :
             result.df[i].OptimizedEnergy = before.rows[i].w * 90
        /\ result.total_optimized_energy * 10 = result.total_baseline_energy * 9

C6_BoundaryInclusive ==
    /\ (Returned(EnergySimulation) /\ ValidTable(before)) =>
         \A i \in 1..Len(before.rows) :
             before.rows[i].a = call.T =>
                 result.df[i].OptimizedEnergy >= before.rows[i].w * Percent
    /\ (Returned(Simulator) /\ ValidTable(before)) =>
         \A i \in 1..Len(before.rows) :
             before.rows[i].a = call.T =>
                 data.derived.OptimizedEnergy[i] = before.rows[i].w * Percent

C7_Case == Returned(EnergySimulation) /\ result.status = "ok"

\* C7: carbon_footprint_impact is emissions_reduction /
\* total_baseline_emissions * 100 when the baseline emissions are not zero
\* and exactly 0 when they are zero, in particular when every workload is 0.
C7_ZeroBaselineGuard ==
    C7_Case =>
        /\ result.total_baseline_emissions # 0 =>
             result.carbon_footprint_impact =
                 [num |-> result.emissions_reduction * 100,
                  den |-> result.total_baseline_emissions]
        /\ result.total_baseline_emissions = 0 =>
             result.carbon_footprint_impact = [num |-> 0, den |-> 1]
        /\ (\A i \in 1..Len(before.rows) : before.rows[i].w = 0) =>
             /\ result.total_baseline_emissions = 0
             /\ result.carbon_footprint_impact = [num |-> 0, den |-> 1]

C7_Witness ==
    /\ C7_Case
    /\ call.fnr > 0
    /\ \A i \in 1..Len(before.rows) : before.rows[i].w = 0
    /\ result.total_baseline_emissions = 0

\* C8: total_optimized_energy is the sum of the returned (clamped)
\* 'Optimized Energy (kWh)' column, total_baseline_energy the sum of the
\* 'Baseline Energy (kWh)' column, and energy_savings, cost_savings and
\* emissions_reduction are baseline total minus optimized total.
C8_Additivity ==
    (Returned(EnergySimulation) /\ result.status = "ok") =>
        /\ result.total_optimized_energy = SumSeq(OptimizedColumn(result.df))
        /\ result.total_baseline_energy = SumSeq(BaselineColumn(result.df))
        /\ result.energy_savings =
               result.total_baseline_energy - result.total_optimized_energy
        /\ result.cost_savings =
               result.total_baseline_cost - result.total_optimized_cost
        /\ result.emissions_reduction =
               result.total_baseline_emissions - result.total_optimized_emissions

\* A run in which the clamp changed a slot and the savings are not zero.
C8_Witness ==
    /\ Returned(EnergySimulation)
    /\ result.status = "ok"
    /\ result.energy_savings # 0
    /\ result.cost_savings # 0
    /\ \E i \in 1..Len(before.rows) :
         before.rows[i].w < 0 /\ result.df[i].OptimizedEnergy = 0

\* C9: calculate_baseline on a table without the workload column fails with
\* the error of its own column-existence check (ValueError, 'Data must
\* contain a ... column').
C9_MissingColumnError ==
    (Returned(BaselineCalculator) /\ ~before.hasWorkload) =>
        result.status = "ValueError"

\* C10: calculate_baseline has no side effects on its input: after the call
\* every cell of the caller's table holds the value it held before.
C10_InputUnchanged ==
    Returned(BaselineCalculator) => data = before

\* C11: energy_simulation.run_simulation leaves the caller's table as it was
\* (no column added, no cell changed), and the columns of the returned table
\* are storage of their own: the optimized column shares no buffer with the
\* baseline column or with the caller's workload column, so the writes of the
\* two loops reach neither the caller's workloads nor the returned baseline.
C11_CallerUnchanged ==
    Returned(EnergySimulation) =>
        /\ data = before
        /\ result.status = "ok" =>
             /\ result.storage.OptimizedEnergy # result.storage.BaselineEnergy
             /\ result.storage.OptimizedEnergy # CallerBuffer
             /\ result.storage.BaselineEnergy # CallerBuffer
             /\ BaselineColumn(result.df) = workload_energy(before.rows)

\* A run whose loops wrote: the optimized column differs from the baseline.
C11_Witness ==
    /\ Returned(EnergySimulation)
    /\ result.status = "ok"
    /\ \E i \in 1..Len(before.rows) :
         result.df[i].OptimizedEnergy > result.df[i].BaselineEnergy
    /\ \E i \in 1..Len(before.rows) :
         result.df[i].OptimizedEnergy < result.df[i].BaselineEnergy
    /\ data = before

\* C12: a renewable threshold outside [0,1] is a configuration error: either
\* run_simulation rejects it before computing anything and returns no totals
\* and no result table.
C12_ThresholdRejected ==
    ( /\ Returned(EnergySimulation) \/ Returned(Simulator)
      /\ Numeric(before)
      /\ call.T < 0 \/ call.T > 100 ) =>
        result.status = "ConfigurationError"

\* The number of cells of the workload column that do not parse.
DroppedRows(rows) ==
    SumSeq([i \in 1..Len(rows) |-> IF rows[i].cell = "bad" THEN 1 ELSE 0])

\* C13: with unparseable cells in the workload column calculate_baseline
\* completes, total_energy is the sum over the rows that parse, and the
\* number of dropped rows is reported to the caller.
C13_DroppedRowsReported ==
    ( /\ Returned(BaselineCalculator)
      /\ before.hasWorkload
      /\ HasBad(before.rows) ) =>
        /\ result.status = "ok"
        /\ result.total_energy =
               SumSeq([i \in 1..Len(before.rows) |->
                         IF before.rows[i].cell = "bad"
                         THEN 0 ELSE before.rows[i].w * Percent])
        /\ "dropped_rows" \in DOMAIN result
        /\ result.dropped_rows = DroppedRows(before.rows)

\* C14: the baseline emissions an optimize entry point subtracts from are
\* total baseline energy times the non-renewable factor, whatever the
\* renewable availability: calculate_baseline's total_emissions for the same
\* table and factor.
C14_BaselineAllNonRenewable ==
    /\ (Returned(EnergySimulation) /\ result.status = "ok") =>
         /\ result.total_baseline_emissions =
                calculate_baseline(before, 0, call.fnr).result.total_emissions
         /\ result.emissions_reduction =
                calculate_baseline(before, 0, call.fnr).result.total_emissions
                - result.total_optimized_emissions
    /\ (Returned(Simulator) /\ result.status = "ok") =>
         /\ result.baseline_emissions =
                calculate_baseline(before, 0, call.fnr).result.total_emissions
         /\ result.emissions_savings =
                calculate_baseline(before, 0, call.fnr).result.total_emissions
                - result.optimized_emissions

\* Two slots of 10 kWh at 80% and 50% availability and price 10, threshold
\* 0.70: the deficit 2 kWh goes to the first slot, the second loses 1 kWh.
C15_Case ==
    /\ Returned(EnergySimulation)
    /\ Numeric(before)
    /\ Workloads(before) = <<10, 10>>
    /\ Availabilities(before) = <<80, 50>>
    /\ call.T = 70

\* C15: negative savings are not an error: run_simulation returns normally
\* on every numeric table, and on the valid input above the optimized energy
\* and cost exceed the baseline totals (energy_savings -1 kWh, cost_savings
\* -10 price units).
C15_NegativeSavings ==
    /\ (Returned(EnergySimulation) /\ Numeric(before)) => result.status = "ok"
    /\ C15_Case =>
         /\ ValidTable(before)
         /\ result.total_optimized_energy > result.total_baseline_energy
         /\ result.total_optimized_cost > result.total_baseline_cost
         /\ result.energy_savings = -100
         /\ result.cost_savings = -1000

C15_Witness ==
    /\ C15_Case
    /\ result.status = "ok"
    /\ result.energy_savings < 0
    /\ result.cost_savings < 0

\* The term of slot i in the deficit: workload times (threshold minus
\* availability fraction) when the availability is below the threshold.
DeficitTerm(row, T) == IF row.a < T THEN row.w * (T - row.a) ELSE 0

\* C16: the deficit computed before redistribution is the sum over the
\* non-optimal slots of workload * (threshold - availability fraction);
\* optimal slots contribute nothing, each term is non-negative when the
\* workload is, and so the deficit is never negative on such a table.
C16_Deficit ==
    (Returned(EnergySimulation) /\ result.status = "ok") =>
        LET rows == before.rows
            deficit == energy_to_shift(rows, call.T)
        IN /\ deficit = SumSeq([i \in 1..Len(rows) |->
                                  DeficitTerm(rows[i], call.T)])
           /\ \A i \in 1..Len(rows) :
                /\ optimal_hours(rows, call.T)[i] =>
                     DeficitTerm(rows[i], call.T) = 0
                /\ ~optimal_hours(rows, call.T)[i] => rows[i].a < call.T
                /\ rows[i].w >= 0 => DeficitTerm(rows[i], call.T) >= 0
           /\ (\A i \in 1..Len(rows) : rows[i].w >= 0) => deficit >= 0

\* A positive deficit on a table with an optimal slot of non-zero workload
\* whose availability is above the threshold.
C16_Witness ==
    /\ Returned(EnergySimulation)
    /\ result.status = "ok"
    /\ energy_to_shift(before.rows, call.T) > 0
    /\ \E i \in 1..Len(before.rows) :
         /\ before.rows[i].a > call.T
         /\ before.rows[i].w > 0
    /\ \A i \in 1..Len(before.rows) : before.rows[i].w >= 0

\* The redistribution pass slot by slot: the deficit remaining
\* when slot i is reached, and whether the pass has stopped before it (the
\* deficit reached zero at an earlier optimal slot).
RECURSIVE RemainingDeficit(_, _, _)
RemainingDeficit(i, rows, T) ==
    IF i = 1
    THEN [ets |-> energy_to_shift(rows, T), stopped |-> FALSE]
    ELSE LET prev == RemainingDeficit(i - 1, rows, T)
         IN IF prev.stopped \/ ~Optimal(rows[i - 1].a, T)
            THEN prev
            ELSE LET left == prev.ets - Min(prev.ets, rows[i - 1].w * 20)
                 IN [ets |-> left, stopped |-> left <= 0]

\* What the redistribution pass of the returned call added to slot i.
Share(i) == AfterIncrease.opt[i] - workload_energy(before.rows)[i]

\* C17: in the redistribution pass every visited optimal slot receives
\* exactly min(remaining deficit when it is visited, 20% of its own
\* workload); so on a valid input every optimal slot ends between its
\* workload and 1.2 times its workload and is never reduced.
C17_ShareIsMin ==
    (Returned(EnergySimulation) /\ result.status = "ok") =>
        \A i \in 1..Len(before.rows) :
            Optimal(before.rows[i].a, call.T) =>
                LET at == RemainingDeficit(i, before.rows, call.T)
                    w == before.rows[i].w
                IN /\ ~at.stopped => Share(i) = Min(at.ets, w * 20)
                   /\ (ValidTable(before) /\ call.T \in 0..100) =>
                        /\ result.df[i].OptimizedEnergy >= w * Percent
                        /\ result.df[i].OptimizedEnergy <= w * 120

\* C18: the deficit goes to the optimal slots in ascending timestamp order:
\* an optimal slot receives a non-zero share only if every optimal slot with
\* an earlier timestamp has received its full 20% cap.
C18_AscendingTimestampOrder ==
    (Returned(EnergySimulation) /\ result.status = "ok") =>
        \A i, j \in 1..Len(before.rows) :
            ( /\ Optimal(before.rows[i].a, call.T)
              /\ Optimal(before.rows[j].a, call.T)
              /\ before.ts[j] < before.ts[i]
              /\ Share(i) # 0 ) =>
                Share(j) = before.rows[j].w * 20

\* C19: every non-optimal slot ends at exactly 0.9 times its workload,
\* whatever the deficit and whatever was redistributed, and receives none of
\* the redistributed energy (both run_simulation functions).
C19_FlatReduction ==
    /\ (Returned(EnergySimulation) /\ result.status = "ok") =>
         \A i \in 1..Len(before.rows) :
             (~Optimal(before.rows[i].a, call.T) /\ before.rows[i].w >= 0) =>
                 /\ Share(i) = 0
                 /\ result.df[i].OptimizedEnergy = before.rows[i].w * 90
    /\ (Returned(Simulator) /\ result.status = "ok") =>
         \A i \in 1..Len(before.rows) :
             ~simulator_Optimal(before.rows[i].a, call.T) =>
                 data.derived.OptimizedEnergy[i] = before.rows[i].w * 90

\* Emissions of a slot from its energy: energy * (1 -
\* availability) * non-renewable factor + energy * availability * renewable
\* factor, with the availability in percent.
SlotEmissions(energy, a, fnr, fr) ==
    energy * (Percent - a) * fnr + energy * a * fr

\* C20: per slot, optimized cost is optimized energy times the energy price
\* and optimized emissions are optimized energy * (1 - availability) * fnr +
\* optimized energy * availability * fr, from the optimized energy of the
\* returned column and the slot's own availability; the optimized cost and
\* emissions totals are the sums of these.  (simulator.run_simulation
\* prices every slot at its energy_price_per_kwh argument.)
C20_OptimizedMetrics ==
    /\ (Returned(EnergySimulation) /\ result.status = "ok") =>
         LET df == result.df
         IN /\ result.total_optimized_cost =
                   SumSeq([i \in 1..Len(df) |->
                             df[i].OptimizedEnergy * before.rows[i].p])
            /\ result.total_optimized_emissions =
                   SumSeq([i \in 1..Len(df) |->
                             SlotEmissions(df[i].OptimizedEnergy,
                                           before.rows[i].a,
                                           call.fnr, call.fr)])
            /\ \A i \in 1..Len(df) :
                   df[i].OptimizedEnergy =
                       optimized_workload_energy(before.rows, call.T,
                                                 before.dtype)[i]
    /\ (Returned(Simulator) /\ result.status = "ok") =>
         LET oe == data.derived.OptimizedEnergy
         IN /\ \A i \in 1..Len(oe) :
                   data.derived.OptimizedEmissions[i] =
                       SlotEmissions(oe[i], before.rows[i].a,
                                     call.fnr, call.fr)
            /\ result.optimized_cost =
                   SumSeq([i \in 1..Len(oe) |-> oe[i] * call.price])
            /\ result.optimized_emissions =
                   SumSeq(data.derived.OptimizedEmissions)

\* A run with non-zero factors in which one slot was raised, one reduced
\* to 0.9 of its workload and one clamped to 0, with slots of different
\* availability.
C20_Witness ==
    /\ Returned(EnergySimulation)
    /\ result.status = "ok"
    /\ call.fnr > 0
    /\ call.fr > 0
    /\ \E i, j, k \in 1..Len(before.rows) :
         /\ result.df[i].OptimizedEnergy > result.df[i].BaselineEnergy
         /\ before.rows[i].a \in 1..99
         /\ result.df[j].OptimizedEnergy = before.rows[j].w * 90
         /\ before.rows[j].w > 0
         /\ before.rows[k].w < 0
         /\ result.df[k].OptimizedEnergy = 0
    /\ result.total_optimized_emissions > 0

\* The 20% cap of slot i of the returned call, in centi-kWh.
Cap(i) == before.rows[i].w * 20

\* The sum of f over the optimal slots of the returned call.
SumOverOptimal(f) ==
    SumSeq([i \in 1..Len(before.rows) |->
              IF Optimal(before.rows[i].a, call.T) THEN f[i] ELSE 0])

\* C22: deficit accounting of the redistribution loop on a valid input: the
\* remaining deficit is never negative, the initial deficit is the remaining
\* deficit plus what the slots have received, and when the loop ends either
\* nothing remains or every optimal slot has received exactly its 20% cap,
\* so the energy shifted is min(initial deficit, 0.2 * sum of the optimal
\* slots' workloads).
C22_DeficitAccounting ==
    ( /\ Returned(EnergySimulation)
      /\ result.status = "ok"
      /\ ValidTable(before)
      /\ call.T \in 0..100 ) =>
        LET n == Len(before.rows)
            initial == energy_to_shift(before.rows, call.T)
            shifted == SumOverOptimal([i \in 1..n |-> Share(i)])
            caps == SumOverOptimal([i \in 1..n |-> Cap(i)])
        IN /\ \A i \in 1..n :
                RemainingDeficit(i, before.rows, call.T).ets >= 0
           /\ AfterIncrease.ets >= 0
           /\ initial = AfterIncrease.ets + shifted
           /\ \/ AfterIncrease.ets = 0
              \/ \A i \in 1..n :
                   Optimal(before.rows[i].a, call.T) => Share(i) = Cap(i)
           /\ shifted = Min(initial, caps)

\* The table with its rows in the order perm (row i of the result is row
\* perm[i] of frame).
Reordered(frame, perm) ==
    [frame EXCEPT
       !.rows = [i \in 1..Len(frame.rows) |-> frame.rows[perm[i]]],
       !.ts = [i \in 1..Len(frame.rows) |-> frame.ts[perm[i]]]]

\* C23: on a valid input total_optimized_energy and energy_savings do not
\* depend on the order of the rows: every reordering of the table gives the
\* same two totals.
C23_OrderIndependentTotals ==
    ( /\ Returned(EnergySimulation)
      /\ result.status = "ok"
      /\ ValidTable(before)
      /\ call.T \in 0..100 ) =>
        \A perm \in Permutations(1..Len(before.rows)) :
            LET other == run_simulation(Reordered(before, perm),
                                        call.T, call.fnr, call.fr).result
            IN /\ other.total_optimized_energy = result.total_optimized_energy
               /\ other.energy_savings = result.energy_savings

\* C24: on the same valid input and parameters simulator.run_simulation and
\* energy_simulation.run_simulation classify every slot alike and give every
\* non-optimal slot 0.9 * workload; simulator.run_simulation leaves optimal
\* slots at their workload, so its energy_savings is >= 0, and the two
\* optimized totals differ by exactly what energy_simulation.run_simulation
\* redistributed, coinciding exactly when that amount is zero.
C24_EntryPointsRelated ==
    ( /\ Returned(Simulator)
      /\ result.status = "ok"
      /\ ValidTable(before)
      /\ call.T \in 0..100 ) =>
        LET n == Len(before.rows)
            es == run_simulation(before, call.T, call.fnr, call.fr).result
            redistributed == SumOverOptimal([i \in 1..n |-> Share(i)])
            oe == data.derived.OptimizedEnergy
        IN /\ \A i \in 1..n :
                /\ simulator_Optimal(before.rows[i].a, call.T)
                       = Optimal(before.rows[i].a, call.T)
                /\ ~Optimal(before.rows[i].a, call.T) =>
                     /\ oe[i] = before.rows[i].w * 90
                     /\ es.df[i].OptimizedEnergy = oe[i]
                /\ Optimal(before.rows[i].a, call.T) =>
                     oe[i] = before.rows[i].w * Percent
           /\ result.optimized_energy <= result.baseline_energy
           /\ result.energy_savings >= 0
           /\ es.total_optimized_energy - result.optimized_energy
                  = redistributed
           /\ (es.total_optimized_energy = result.optimized_energy)
                  <=> (redistributed = 0)

\* What call r returns when it runs alone on its own copy of the table.
AloneResult(r) ==
    simulator_run_simulation(before, runs[r].args.T, runs[r].args.price,
                             runs[r].args.fnr, runs[r].args.fr).result

\* C21: two calls of simulator.run_simulation on the same table object do
\* not interfere: however their statements interleave, each call returns
\* the result dictionary it returns when run alone on its own copy.
C21_NoInterference ==
    \A r \in DOMAIN runs :
        runs[r].pc = "returned" => runs[r].result = AloneResult(r)

====
